---- MODULE Spec2Model ----
(***************************************************************************)
(* A model of laceworksdk/http_session.py: the HttpSession class, its      *)
(* access-token cache and its five verb methods, run by threads that may   *)
(* share a session.  One step of a thread is one statement (or one run of  *)
(* statements that touch only the thread's own locals) of the method it is *)
(* in; the HTTP peers (the auth endpoint, the resource endpoint) and the   *)
(* clock are the environment.                                              *)
(***************************************************************************)
EXTENDS Integers, Sequences, FiniteSets, TLC

\* ------------------------------------------------------------------ bounds

\* The clock runs from 0 to MaxTime.
MaxTime == 3

\* At most MaxCalls public operations (constructions and verb calls) begin.
MaxCalls == 3

\* ------------------------------------------------------------- identities

Threads == {"t1", "t2"}

Sessions == {"A", "B"}

Verbs == {"get", "patch", "post", "put", "delete"}

\* ---------------------------------------------------------- Python values

\* Python's None.
None == [k |-> "None"]

\* An attribute name that is not in a dict (an instance __dict__, a JSON
\* object).
Absent == [k |-> "Absent"]

\* A str value.
Str(v) == [k |-> "str", v |-> v]

\* Truthy as `is not None`.
TruthyNotNone(x) == x /= None

\* bool(x) for the values a sub-account takes: None and "" are falsy.
Truthy(x) == x /= None /\ x /= Str("")

\* The outcome of a call: it returned a value, or it raised an exception.
Return(v) == [k |-> "return", value |-> v]

Raise(e) == [k |-> "raise", exc |-> e]

\* A built-in or library exception, which carries no response.
Exc(type) == [type |-> type, response |-> None]

\* laceworksdk.exceptions.ApiError, constructed from the offending response,
\* which it carries for the caller's inspection.
ApiError(response) == [type |-> "ApiError", response |-> response]

\* laceworksdk.config.DEFAULT_SUCCESS_RESPONSE_CODES: the allow-list.
DEFAULT_SUCCESS_RESPONSE_CODES == {200, 201, 204}

\* ------------------------------------------------------ the HTTP peers

\* A transport-level failure of requests.Session.<verb>: no response object.
TransportError == [k |-> "exc", type |-> "ConnectionError"]

\* The text of an expiresAt field: a wall-clock reading, with or without the
\* fraction of a second (".%f") and with or without a UTC offset ("%z").
TimeStr(wall, frac, tz) == [k |-> "timestr", wall |-> wall, frac |-> frac, tz |-> tz]

\* A JSON number, where a string was expected.
JsonNumber == [k |-> "num", v |-> 0]

ExpiresAtValues ==
    {TimeStr(w, TRUE, z) : w \in 1..(MaxTime + 1), z \in {"+00:00", "+01:00"}}
        \cup {TimeStr(1, FALSE, "+00:00"), TimeStr(1, TRUE, ""), JsonNumber, Absent}

\* A body that is no JSON document.
NotJson == [k |-> "notjson"]

JsonObject(expiresAt, token) == [k |-> "obj", expiresAt |-> expiresAt, token |-> token]

Response(id, status, ctype, body) ==
    [k |-> "resp", id |-> id, status |-> status, ctype |-> ctype, body |-> body]

\* What the auth endpoint may answer to the id-th token request: a rejection,
\* or an accepting status with any body; the token it issues is fresh.
AuthReplies(id) ==
    {TransportError}
        \cup {Response(id, 401, "application/json", JsonObject(Absent, Absent))}
        \cup {Response(id, 201, "application/json", NotJson)}
        \cup {Response(id, 201, "application/json", JsonObject(e, tk)) :
                e \in ExpiresAtValues, tk \in {Absent, Str(id)}}

\* What the resource endpoint may answer: a JSON document, a body announced
\* as JSON that is none, or plain text, under any status.
ResourceReplies ==
    {TransportError}
        \cup {Response(0, st, "application/json", b) :
                st \in {200, 204, 401, 404}, b \in {NotJson, JsonObject(Absent, Absent)}}
        \cup {Response(0, st, "text/plain", NotJson) : st \in {200, 204, 401, 404}}
        \cup {Response(0, 200, "Application/JSON; charset=UTF-8", NotJson)}

\* ----------------------------------------------------- library functions

\* requests.Response.json(): the decoded body, or ValueError.
Json(response) ==
    IF response.body.k = "notjson"
    THEN Raise(Exc("ValueError"))
    ELSE Return(response.body)

\* GetItem as dict.get(key): a missing key yields None.
GetItemOrNone(obj, key) ==
    Return(IF key = "expiresAt"
           THEN (IF obj.expiresAt = Absent THEN None ELSE obj.expiresAt)
           ELSE (IF obj.token = Absent THEN None ELSE obj.token))

\* obj[key] on a decoded JSON object.
GetItem(obj, key) ==
    LET v == IF key = "expiresAt" THEN obj.expiresAt ELSE obj.token
    IN  IF v = Absent THEN Raise(Exc("KeyError")) ELSE Return(v)

UtcOffset(tz) == IF tz = "+01:00" THEN 1 ELSE 0

\* datetime.strptime(s, "%Y-%m-%dT%H:%M:%S.%f%z"): an aware datetime, kept as
\* the UTC instant it denotes (all the code does with it is compare it).
Strptime(s) ==
    IF s.k /= "timestr"
    THEN Raise(Exc("TypeError"))
    ELSE IF ~s.frac \/ s.tz = ""
         THEN Raise(Exc("ValueError"))
         ELSE Return([k |-> "datetime", utc |-> s.wall - UtcOffset(s.tz)])

\* -------------------------------------------------------------- the state

VARIABLES
    now,        \* datetime.now(timezone.utc)
    cls,        \* the class attributes of HttpSession
    inst,       \* each session's instance __dict__
    life,       \* each session: "none", "constructing", "live", "dead"
    th,         \* each thread: where it is in which call, its locals, its outcome
    authCount,  \* requests each session has sent to the auth endpoint
    issued,     \* requests the auth endpoint has received
    calls,      \* public operations begun
    ghost       \* history: per session, which responses the cache was written from

vars == <<now, cls, inst, life, th, authCount, issued, calls, ghost>>

IdleThread ==
    [pc |-> "idle", op |-> "", sess |-> "", org |-> FALSE, response |-> None,
     wire |-> <<>>, startExpired |-> FALSE, checkNow |-> 0, result |-> [k |-> "none"]]

\* Attribute lookup: the instance __dict__, then the class.
Attr(s, name) ==
    LET own == IF name = "token" THEN inst[s].token ELSE inst[s].expiry
    IN  IF own /= Absent THEN own
        ELSE IF name = "token" THEN cls.token ELSE cls.expiry

\* SetAttr binding the attribute of the class, which all instances share.
SetAttrOnClass(s, name, value) ==
    [cls |-> [cls EXCEPT ![name] = value], inst |-> inst]

\* self.<name> = value always binds in the instance __dict__; the class
\* attribute of the same name stays as it is.
SetAttr(s, name, value) ==
    [cls |-> cls, inst |-> [inst EXCEPT ![s][name] = value]]

Init ==
    /\ now = 0
    /\ cls = [token |-> None, expiry |-> None]
    /\ inst = [s \in Sessions |-> [subaccount |-> Absent, token |-> Absent, expiry |-> Absent]]
    /\ life = [s \in Sessions |-> "none"]
    /\ th = [t \in Threads |-> IdleThread]
    /\ authCount = [s \in Sessions |-> 0]
    /\ issued = 0
    /\ calls = 0
    /\ ghost = [s \in Sessions |->
                    [expirySrc |-> 0, lastWrite |-> 0, ctorExpiry |-> None, tokenExpiry |-> None,
                     fetched |-> 0]]

\* ------------------------------------------------- HttpSession, as operators

\* NeedsToken with the comparison turned round.
NeedsTokenInverted(token, expiry, nowv) ==
    IF token = None THEN Return(TRUE)
    ELSE IF expiry = None THEN Raise(Exc("TypeError"))
    ELSE Return(expiry.utc > nowv)

\* NeedsToken without the test of the expiry.
NeedsTokenOnlyWhenNone(token, expiry, nowv) == Return(token = None)

\* The condition of _check_access_token: no token, or the expiry is before now.
\* `or` short-circuits; None < datetime raises TypeError.
NeedsToken(token, expiry, nowv) ==
    IF token = None THEN Return(TRUE)
    ELSE IF expiry = None THEN Raise(Exc("TypeError"))
    ELSE Return(expiry.utc < nowv)

\* CheckResponseCode taking every status below 500 for a success.
CheckResponseCodeBelow500(response, expected_response_codes) ==
    IF response.status < 500
    THEN Return(None)
    ELSE Raise(ApiError(response))

\* CheckResponseCode raising an ApiError that was not given the response.
CheckResponseCodeBare(response, expected_response_codes) ==
    IF response.status \in expected_response_codes
    THEN Return(None)
    ELSE Raise(ApiError(None))

\* _check_response_code
CheckResponseCode(response, expected_response_codes) ==
    IF response.status \in expected_response_codes
    THEN Return(None)
    ELSE Raise(ApiError(response))

\* str.lower() on the Content-Type values the peers send.
Lower(ctype) ==
    IF ctype = "Application/JSON; charset=UTF-8"
    THEN "application/json; charset=utf-8"
    ELSE ctype

\* "application/json" in <string>, on lower-cased Content-Type values: a
\* substring test, so parameters after the media type do not matter.
ContainsJson(ctype) == ctype \in {"application/json", "application/json; charset=utf-8"}

\* PrintDebugLogging without the except clause: the ValueError of an
\* undecodable JSON body leaves the method.
PrintDebugLoggingUncaught(response) ==
    IF ContainsJson(Lower(response.ctype))
    THEN IF Json(response).k = "raise"
         THEN Json(response)
         ELSE Return([level |-> "debug", text |-> Json(response).value])
    ELSE Return([level |-> "debug", text |-> response.body])

\* _print_debug_logging: what it logs, and at which level.  The ValueError of
\* an undecodable JSON body is caught and logged as a warning.
PrintDebugLogging(response) ==
    IF ContainsJson(Lower(response.ctype))
    THEN IF Json(response).k = "raise"
         THEN Return([level |-> "warning", text |-> Str("Error parsing JSON response body")])
         ELSE Return([level |-> "debug", text |-> Json(response).value])
    ELSE Return([level |-> "debug", text |-> response.body])

\* GetAccessToken without the validation of the status.
GetAccessTokenUnchecked(net) ==
    IF net.k = "exc"
    THEN Raise(Exc("UnboundLocalError"))
    ELSE Return(net)

\* _get_access_token, given what the POST to the auth endpoint came to.  Any
\* exception in the try block reaches `raise ApiError(response)`; when the POST
\* itself raised, the local `response` was never bound and evaluating it
\* raises UnboundLocalError instead.
GetAccessToken(net) ==
    IF net.k = "exc"
    THEN Raise(Exc("UnboundLocalError"))
    ELSE IF CheckResponseCode(net, DEFAULT_SUCCESS_RESPONSE_CODES).k = "raise"
         THEN Raise(ApiError(net))
         ELSE IF PrintDebugLogging(net).k = "raise"
              THEN Raise(ApiError(net))
              ELSE Return(net)

\* GetRequestHeaders with str(org_access) for the Org-Access header.
GetRequestHeadersPyBool(s, org_access) ==
    LET names == {"Authorization", "Org-Access", "User-Agent"}
                    \cup (IF Truthy(inst[s].subaccount) THEN {"Account-Name"} ELSE {})
    IN  [h \in names |->
            CASE h = "Authorization" -> Attr(s, "token")
              [] h = "Org-Access" -> IF org_access THEN Str("True") ELSE Str("False")
              [] h = "User-Agent" -> Str("laceworksdk-python-client")
              [] h = "Account-Name" -> inst[s].subaccount]

\* _get_request_headers
GetRequestHeaders(s, org_access) ==
    LET names == {"Authorization", "Org-Access", "User-Agent"}
                    \cup (IF Truthy(inst[s].subaccount) THEN {"Account-Name"} ELSE {})
    IN  [h \in names |->
            CASE h = "Authorization" -> Attr(s, "token")
              [] h = "Org-Access" -> IF org_access THEN Str("true") ELSE Str("false")
              [] h = "User-Agent" -> Str("laceworksdk-python-client")
              [] h = "Account-Name" -> inst[s].subaccount]

\* The rest of a verb method once its request came to `net`: a transport
\* exception propagates as it is; a response is validated, logged, returned.
VerbOutcome(net) ==
    IF net.k = "exc"
    THEN Raise(Exc(net.type))
    ELSE IF CheckResponseCode(net, DEFAULT_SUCCESS_RESPONSE_CODES).k = "raise"
         THEN CheckResponseCode(net, DEFAULT_SUCCESS_RESPONSE_CODES)
         ELSE IF PrintDebugLogging(net).k = "raise"
              THEN PrintDebugLogging(net)
              ELSE Return(net)

\* ---------------------------------------------------------------- actions

\* What the log of a call's exchanges keeps of a reply of the auth endpoint.
Digest(net) ==
    IF net.k = "exc" THEN net ELSE [k |-> "resp", id |-> net.id, status |-> net.status]

\* A public operation of thread t ends with outcome res.  A constructor that
\* returns hands the session to its caller; one that raises hands out nothing.
LifeAfter(t, res) ==
    IF th[t].op = "__init__"
    THEN [life EXCEPT ![th[t].sess] = IF res.k = "return" THEN "live" ELSE "dead"]
    ELSE life

\* __init__ up to its call of _check_access_token.
Construct(t, s, subaccount) ==
    /\ calls < MaxCalls
    /\ th[t].pc \in {"idle", "done"}
    /\ life[s] = "none"
    /\ calls' = calls + 1
    /\ life' = [life EXCEPT ![s] = "constructing"]
    /\ inst' = [inst EXCEPT ![s].subaccount = subaccount]
    /\ th' = [th EXCEPT ![t] = [IdleThread EXCEPT !.pc = "check", !.op = "__init__", !.sess = s]]
    /\ UNCHANGED <<now, cls, authCount, issued, ghost>>

\* Entry into get, patch, post, put or delete on a session its caller holds.
Call(t, s, verb, org) ==
    /\ calls < MaxCalls
    /\ th[t].pc \in {"idle", "done"}
    /\ life[s] = "live"
    /\ calls' = calls + 1
    /\ th' = [th EXCEPT ![t] =
                [IdleThread EXCEPT !.pc = "check", !.op = verb, !.sess = s, !.org = org,
                    !.startExpired = /\ Attr(s, "token") /= None
                                     /\ Attr(s, "expiry") /= None
                                     /\ Attr(s, "expiry").utc < now]]
    /\ UNCHANGED <<now, cls, inst, life, authCount, issued, ghost>>

\* _check_access_token: the test of its `if`.
CheckAccessToken(t) ==
    /\ th[t].pc = "check"
    /\ LET s == th[t].sess
           need == NeedsToken(Attr(s, "token"), Attr(s, "expiry"), now)
           res == IF need.k = "raise" THEN need ELSE Return(None)
           ends == need.k = "raise" \/ (~need.value /\ th[t].op = "__init__")
       IN  /\ th' = [th EXCEPT ![t] =
                        IF ends THEN [@ EXCEPT !.pc = "done", !.result = res]
                        ELSE [@ EXCEPT !.pc = IF need.value THEN "fetch" ELSE "dispatch",
                                       !.checkNow = now]]
           /\ life' = IF ends THEN LifeAfter(t, res) ELSE life
           /\ ghost' = IF ends /\ th[t].op = "__init__" /\ res.k = "return"
                       THEN [ghost EXCEPT ![s].ctorExpiry = Attr(s, "expiry")]
                       ELSE ghost
    /\ UNCHANGED <<now, cls, inst, authCount, issued, calls>>

\* FetchToken remembering a failure: when the fetch raises, the cached expiry
\* is pushed past the end of the clock, so that later calls do not fetch.
FetchTokenCachingFailure(t, replies) ==
    /\ th[t].pc = "fetch"
    /\ \E net \in replies :
         LET s == th[t].sess
             res == GetAccessToken(net)
             exchange == [ep |-> "auth", method |-> "POST", id |-> issued + 1,
                          reply |-> Digest(net)]
         IN  /\ th' = [th EXCEPT ![t] =
                          IF res.k = "raise"
                          THEN [@ EXCEPT !.pc = "done", !.result = res, !.checkNow = 0,
                                         !.wire = Append(@, exchange)]
                          ELSE [@ EXCEPT !.pc = "store_expiry", !.response = res.value,
                                         !.wire = Append(@, exchange)]]
             /\ life' = IF res.k = "raise" THEN LifeAfter(t, res) ELSE life
             /\ authCount' = [authCount EXCEPT ![s] = @ + 1]
             /\ inst' = IF res.k = "raise"
                        THEN SetAttr(s, "expiry", [k |-> "datetime", utc |-> MaxTime + 1]).inst
                        ELSE inst
             /\ ghost' = IF res.k = "raise" THEN ghost
                         ELSE [ghost EXCEPT ![s].fetched = res.value.id]
    /\ issued' = issued + 1
    /\ UNCHANGED <<now, cls, calls>>

\* _check_access_token: response = self._get_access_token(), the auth endpoint
\* answering with one of `replies`.
FetchToken(t, replies) ==
    /\ th[t].pc = "fetch"
    /\ \E net \in replies :
         LET s == th[t].sess
             res == GetAccessToken(net)
             exchange == [ep |-> "auth", method |-> "POST", id |-> issued + 1,
                          reply |-> Digest(net)]
         IN  /\ th' = [th EXCEPT ![t] =
                          IF res.k = "raise"
                          THEN [@ EXCEPT !.pc = "done", !.result = res, !.checkNow = 0,
                                         !.wire = Append(@, exchange)]
                          ELSE [@ EXCEPT !.pc = "store_expiry", !.response = res.value,
                                         !.wire = Append(@, exchange)]]
             /\ life' = IF res.k = "raise" THEN LifeAfter(t, res) ELSE life
             /\ authCount' = [authCount EXCEPT ![s] = @ + 1]
             /\ ghost' = IF res.k = "raise" THEN ghost
                         ELSE [ghost EXCEPT ![s].fetched = res.value.id]
    /\ issued' = issued + 1
    /\ UNCHANGED <<now, cls, inst, calls>>

\* _check_access_token: self._access_token_expiry = strptime(response.json()["expiresAt"], ...)
StoreExpiry(t) ==
    /\ th[t].pc = "store_expiry"
    /\ LET s == th[t].sess
           js == Json(th[t].response)
           item == IF js.k = "raise" THEN js ELSE GetItem(js.value, "expiresAt")
           res == IF item.k = "raise" THEN item ELSE Strptime(item.value)
       IN  IF res.k = "raise"
           THEN /\ th' = [th EXCEPT ![t] =
                            [@ EXCEPT !.pc = "done", !.result = res, !.response = None,
                                      !.checkNow = 0]]
                /\ life' = LifeAfter(t, res)
                /\ UNCHANGED <<cls, inst, ghost>>
           ELSE /\ th' = [th EXCEPT ![t].pc = "store_token"]
                /\ inst' = SetAttr(s, "expiry", res.value).inst
                /\ cls' = SetAttr(s, "expiry", res.value).cls
                /\ ghost' = [ghost EXCEPT ![s] =
                                [@ EXCEPT !.expirySrc = th[t].response.id,
                                          !.lastWrite = th[t].response.id]]
                /\ UNCHANGED life
    /\ UNCHANGED <<now, authCount, issued, calls>>

\* _check_access_token: self._access_token = response.json()["token"]
\* The constructor returns after it; a verb method goes on to its request.
StoreToken(t) ==
    /\ th[t].pc = "store_token"
    /\ LET s == th[t].sess
           js == Json(th[t].response)
           res == IF js.k = "raise" THEN js ELSE GetItem(js.value, "token")
           ctor == th[t].op = "__init__"
       IN  IF res.k = "raise"
           THEN /\ th' = [th EXCEPT ![t] =
                            [@ EXCEPT !.pc = "done", !.result = res, !.response = None,
                                      !.checkNow = 0]]
                /\ life' = LifeAfter(t, res)
                /\ UNCHANGED <<cls, inst, ghost>>
           ELSE /\ th' = [th EXCEPT ![t] =
                            IF ctor
                            THEN [@ EXCEPT !.pc = "done", !.result = Return(None),
                                           !.response = None, !.checkNow = 0]
                            ELSE [@ EXCEPT !.pc = "dispatch"]]
                /\ inst' = SetAttr(s, "token", res.value).inst
                /\ cls' = SetAttr(s, "token", res.value).cls
                /\ life' = IF ctor THEN LifeAfter(t, Return(None)) ELSE life
                /\ ghost' = [ghost EXCEPT ![s] =
                                [@ EXCEPT !.lastWrite = th[t].response.id,
                                          !.ctorExpiry = IF ctor THEN Attr(s, "expiry") ELSE @,
                                          !.tokenExpiry =
                                              Strptime(GetItem(js.value, "expiresAt").value).value]]
    /\ UNCHANGED <<now, authCount, issued, calls>>

\* Dispatch dropping the cached token when the resource endpoint answers with
\* a status outside the allow-list.
DispatchInvalidating(t, method, replies) ==
    /\ th[t].pc = "dispatch"
    /\ \E net \in replies :
         LET exchange == [ep |-> "resource", method |-> method,
                          headers |-> GetRequestHeaders(th[t].sess, th[t].org),
                          reply |-> net]
             rejected == net.k = "resp" /\ net.status \notin DEFAULT_SUCCESS_RESPONSE_CODES
         IN  /\ th' = [th EXCEPT ![t] =
                          [@ EXCEPT !.pc = "done", !.result = VerbOutcome(net),
                                    !.response = None, !.checkNow = 0,
                                    !.wire = Append(@, exchange)]]
             /\ inst' = IF rejected THEN SetAttr(th[t].sess, "token", None).inst ELSE inst
    /\ UNCHANGED <<now, cls, life, authCount, issued, calls, ghost>>

\* The request of a verb method and all that follows it in the method, the
\* resource endpoint answering with one of `replies`.
Dispatch(t, method, replies) ==
    /\ th[t].pc = "dispatch"
    /\ \E net \in replies :
         LET exchange == [ep |-> "resource", method |-> method,
                          headers |-> GetRequestHeaders(th[t].sess, th[t].org),
                          reply |-> net]
         IN  th' = [th EXCEPT ![t] =
                      [@ EXCEPT !.pc = "done", !.result = VerbOutcome(net),
                                !.response = None, !.checkNow = 0,
                                !.wire = Append(@, exchange)]]
    /\ UNCHANGED <<now, cls, inst, life, authCount, issued, calls, ghost>>

Get(t) == th[t].op = "get" /\ Dispatch(t, "GET", ResourceReplies)

Patch(t) == th[t].op = "patch" /\ Dispatch(t, "PATCH", ResourceReplies)

Post(t) == th[t].op = "post" /\ Dispatch(t, "POST", ResourceReplies)

Put(t) == th[t].op = "put" /\ Dispatch(t, "PUT", ResourceReplies)

Delete(t) == th[t].op = "delete" /\ Dispatch(t, "DELETE", ResourceReplies)

\* The clock advances.
Tick ==
    /\ now < MaxTime
    /\ now' = now + 1
    /\ UNCHANGED <<cls, inst, life, th, authCount, issued, calls, ghost>>

SubAccounts == {None, Str(""), Str("sub")}

\* A step of thread t, which may construct and use the sessions of S.
ThreadStep(t, S) ==
    \/ \E s \in S, sub \in SubAccounts : Construct(t, s, sub)
    \/ \E s \in S, verb \in Verbs, org \in BOOLEAN : Call(t, s, verb, org)
    \/ CheckAccessToken(t)
    \/ FetchToken(t, AuthReplies(issued + 1))
    \/ StoreExpiry(t)
    \/ StoreToken(t)
    \/ Get(t)
    \/ Patch(t)
    \/ Post(t)
    \/ Put(t)
    \/ Delete(t)

\* One thread, one session: the synchronous, single-threaded use.
Next == Tick \/ ThreadStep("t1", {"A"})

Spec == Init /\ [][Next]_vars

\* The replies of the auth endpoint where sessions are shared or several: no
\* response, a rejection, a token with an expiry in UTC, an expiry without a
\* token.
SharedAuthReplies(id) ==
    {TransportError}
        \cup {Response(id, 401, "application/json", JsonObject(Absent, Absent))}
        \cup {Response(id, 201, "application/json", JsonObject(TimeStr(w, TRUE, "+00:00"), Str(id))) :
                w \in 1..(MaxTime + 1)}
        \cup {Response(id, 201, "application/json", JsonObject(TimeStr(MaxTime + 1, TRUE, "+00:00"), Absent))}

\* The replies of the resource endpoint there: one of each outcome a verb
\* method tells apart.
SharedResourceReplies ==
    {TransportError,
     Response(0, 200, "application/json", JsonObject(Absent, Absent)),
     Response(0, 404, "application/json", JsonObject(Absent, Absent))}

GetShared(t) == th[t].op = "get" /\ Dispatch(t, "GET", SharedResourceReplies)

\* A step of thread t on the sessions of S, which it builds without a
\* sub-account and uses through get(uri).
PlainStep(t, S) ==
    \/ \E s \in S : Construct(t, s, None)
    \/ \E s \in S : Call(t, s, "get", FALSE)
    \/ CheckAccessToken(t)
    \/ FetchToken(t, SharedAuthReplies(issued + 1))
    \/ StoreExpiry(t)
    \/ StoreToken(t)
    \/ GetShared(t)

\* Two threads sharing one session.
NextThreads == Tick \/ \E t \in Threads : PlainStep(t, {"A"})

SpecThreads == Init /\ [][NextThreads]_vars

\* One thread holding two sessions.
NextTwo == Tick \/ PlainStep("t1", Sessions)

SpecTwo == Init /\ [][NextTwo]_vars

\* ------------------------------------------------------------- properties

\* The exchanges of thread t's current (or last) call with endpoint ep.
Exchanges(t, ep) == {i \in DOMAIN th[t].wire : th[t].wire[i].ep = ep}

\* Thread t is in (or has ended) a verb call.
InVerb(t) == th[t].op \in Verbs

\* An auth exchange that got no token: no response at all, or a status
\* outside the allow-list.
FailedFetch(x) ==
    /\ x.ep = "auth"
    /\ \/ x.reply.k = "exc"
       \/ x.reply.status \notin DEFAULT_SUCCESS_RESPONSE_CODES

C2_TokenExpiry ==
    \A t \in Threads :
        (InVerb(t) /\ th[t].startExpired) =>
            /\ th[t].pc \in {"store_expiry", "store_token", "dispatch", "done"}
                    => Cardinality(Exchanges(t, "auth")) = 1
            /\ \A i \in Exchanges(t, "resource") :
                    /\ i = 2
                    /\ th[t].wire[1].ep = "auth"
                    /\ th[t].wire[i].headers["Authorization"] = Str(th[t].wire[1].id)

\* A verb call that began with an expired token has fetched and got its
\* resource response.
C2_Witness ==
    /\ InVerb("t1")
    /\ th["t1"].startExpired
    /\ th["t1"].pc = "done"
    /\ Len(th["t1"].wire) = 2
    /\ th["t1"].result.k = "return"

\* C3 (status validation): a verb call whose resource request got a response
\* returns that response when its status is in the allow-list, and raises
\* ApiError, returning nothing, when it is not.
C3_StatusAllowList ==
    \A t \in Threads : \A i \in Exchanges(t, "resource") :
        LET reply == th[t].wire[i].reply
        IN  (InVerb(t) /\ th[t].pc = "done" /\ reply.k = "resp") =>
                IF reply.status \in DEFAULT_SUCCESS_RESPONSE_CODES
                THEN th[t].result = Return(reply)
                ELSE th[t].result.k = "raise" /\ th[t].result.exc.type = "ApiError"

\* delete() got a 404 and raised ApiError.
C3_Witness ==
    /\ th["t1"].op = "delete"
    /\ th["t1"].pc = "done"
    /\ \E i \in Exchanges("t1", "resource") :
            th["t1"].wire[i].reply.k = "resp" /\ th["t1"].wire[i].reply.status = 404
    /\ th["t1"].result.k = "raise"
    /\ th["t1"].result.exc.type = "ApiError"

\* C4 (two outcomes): every public operation that has ended either returned
\* (a verb: a response with an allow-listed status) or raised ApiError.
C4_ReturnOrApiError ==
    \A t \in Threads :
        th[t].pc = "done" =>
            \/ /\ th[t].result.k = "return"
               /\ InVerb(t) => /\ th[t].result.value /= None
                               /\ th[t].result.value.status \in DEFAULT_SUCCESS_RESPONSE_CODES
            \/ /\ th[t].result.k = "raise"
               /\ th[t].result.exc.type = "ApiError"

\* C5 (failed fetch): an operation whose token fetch failed, by a status
\* outside the allow-list or by a transport exception, raised ApiError.
C5_FailedFetchIsApiError ==
    \A t \in Threads : \A i \in Exchanges(t, "auth") :
        FailedFetch(th[t].wire[i]) =>
            /\ th[t].pc = "done"
            /\ th[t].result.k = "raise"
            /\ th[t].result.exc.type = "ApiError"

\* A session no operation is in the middle of.
Quiescent(s) == \A t \in Threads : th[t].sess = s => th[t].pc \in {"idle", "done"}

\* C6 (wholesale replacement): between operations, the token and the expiry
\* cached by a session its caller holds are both None or both from the same
\* token-fetch response.
C6_TokenAndExpiryPaired ==
    \A s \in Sessions :
        (life[s] = "live" /\ Quiescent(s)) =>
            \/ Attr(s, "token") = None /\ Attr(s, "expiry") = None
            \/ /\ Attr(s, "token") /= None
               /\ Attr(s, "expiry") /= None
               /\ Attr(s, "token") = Str(ghost[s].expirySrc)

C8_NoRetry ==
    \A t \in Threads :
        InVerb(t) =>
            /\ Cardinality(Exchanges(t, "auth")) <= 1
            /\ Cardinality(Exchanges(t, "resource")) <= 1
            /\ \A i \in Exchanges(t, "auth") :
                    FailedFetch(th[t].wire[i]) =>
                        /\ th[t].pc = "done"
                        /\ th[t].result.k = "raise"
                        /\ Exchanges(t, "resource") = {}

\* A verb call's token fetch failed, and the call ended there.
C8_Witness ==
    /\ InVerb("t1")
    /\ th["t1"].pc = "done"
    /\ Len(th["t1"].wire) = 1
    /\ FailedFetch(th["t1"].wire[1])
    /\ th["t1"].result.k = "raise"

\* Both threads began get() on an expired token, each fetched a token of its
\* own, and each went on to its resource request.
BothRefreshed ==
    \A t \in Threads :
        /\ th[t].op = "get"
        /\ th[t].sess = "A"
        /\ th[t].startExpired
        /\ th[t].pc = "done"
        /\ Len(th[t].wire) = 2
        /\ th[t].wire[1].ep = "auth"

\* C9 (last writer wins): after two threads have each refreshed the token of
\* the session they share, the cached token and the cached expiry are those of
\* the response of the thread that wrote last.
C9_LastWriterWins ==
    BothRefreshed =>
        /\ Attr("A", "token") = Str(ghost["A"].lastWrite)
        /\ ghost["A"].expirySrc = ghost["A"].lastWrite

\* Both threads are past the test of the expiry of the session they share,
\* each with the reply to an auth request of its own, neither having written
\* its token yet.
C9_Race ==
    \A t \in Threads :
        /\ th[t].op = "get"
        /\ th[t].sess = "A"
        /\ th[t].startExpired
        /\ th[t].pc \in {"store_expiry", "store_token"}
        /\ Cardinality(Exchanges(t, "auth")) = 1

\* C10 (ApiError carries the response): when a verb call's resource response
\* has a status outside the allow-list, the ApiError it raises holds that
\* response, and so that status.
C10_ApiErrorCarriesResponse ==
    \A t \in Threads : \A i \in Exchanges(t, "resource") :
        LET reply == th[t].wire[i].reply
        IN  (InVerb(t) /\ th[t].pc = "done" /\ reply.k = "resp"
                /\ reply.status \notin DEFAULT_SUCCESS_RESPONSE_CODES) =>
                /\ th[t].result.k = "raise"
                /\ th[t].result.exc.response = reply
                /\ th[t].result.exc.response.status = reply.status

\* get() got a 404 and raised an ApiError holding status 404.
C10_Witness ==
    /\ th["t1"].op = "get"
    /\ th["t1"].pc = "done"
    /\ th["t1"].result.k = "raise"
    /\ th["t1"].result.exc.type = "ApiError"
    /\ th["t1"].result.exc.response /= None
    /\ th["t1"].result.exc.response.status = 404
    /\ \E i \in Exchanges("t1", "resource") : th["t1"].wire[i].reply.status = 404

\* A sub-account was configured: a name was given, not None and not the
\* empty string.
SubAccountConfigured(s) == inst[s].subaccount \notin {None, Str("")}

\* C11 (Account-Name): every resource request of every verb has the header
\* Account-Name, with the configured value, if and only if the session was
\* constructed with a sub-account.
C11_AccountNameHeader ==
    \A t \in Threads : \A i \in Exchanges(t, "resource") :
        LET headers == th[t].wire[i].headers
        IN  /\ ("Account-Name" \in DOMAIN headers) <=> SubAccountConfigured(th[t].sess)
            /\ "Account-Name" \in DOMAIN headers
                    => headers["Account-Name"] = inst[th[t].sess].subaccount

\* A session constructed with sub-account "sub" sent a POST with Account-Name: sub.
C11_Witness ==
    /\ th["t1"].op = "post"
    /\ \E i \in Exchanges("t1", "resource") :
            /\ "Account-Name" \in DOMAIN th["t1"].wire[i].headers
            /\ th["t1"].wire[i].headers["Account-Name"] = Str("sub")

\* C12 (Org-Access): every resource request of every verb has the header
\* Org-Access, which is "true" when the call was made with the org flag set
\* and "false" when it was not.
C12_OrgAccessHeader ==
    \A t \in Threads : \A i \in Exchanges(t, "resource") :
        LET headers == th[t].wire[i].headers
        IN  /\ "Org-Access" \in DOMAIN headers
            /\ headers["Org-Access"] = (IF th[t].org THEN Str("true") ELSE Str("false"))

\* put(uri, org=True) sent Org-Access: true.
C12_Witness ==
    /\ th["t1"].op = "put"
    /\ th["t1"].org
    /\ \E i \in Exchanges("t1", "resource") :
            th["t1"].wire[i].headers["Org-Access"] = Str("true")

\* C13 (refresh condition): a verb call fetches a token if and only if, at
\* its check, no token is cached or now >= the cached expiry: a call that is
\* fetching had no token or an expiry at or before the time of its check, and
\* a call that goes to its request without a fetch had an expiry after it.
C13_RefreshIffExpiredOrMissing ==
    \A t \in Threads :
        InVerb(t) =>
            LET token == Attr(th[t].sess, "token")
                expiry == Attr(th[t].sess, "expiry")
            IN  /\ th[t].pc = "fetch"
                    => (token = None \/ th[t].checkNow >= expiry.utc)
                /\ (th[t].pc = "dispatch" /\ th[t].wire = <<>>)
                    => (token /= None /\ th[t].checkNow < expiry.utc)

\* A verb call was checked at the very instant of the cached expiry and goes
\* to its request without a fetch.
C13_Boundary ==
    /\ InVerb("t1")
    /\ th["t1"].pc = "dispatch"
    /\ th["t1"].wire = <<>>
    /\ Attr("A", "token") /= None
    /\ th["t1"].checkNow = Attr("A", "expiry").utc

\* Thread t takes a step that writes the cache of the session it is in.
Stores(t) == th[t].pc \in {"store_expiry", "store_token"} /\ th'[t].pc /= th[t].pc

\* C14 (instance-owned token): the token and the expiry a session reads
\* change only in a store of a call on that very session; a session under
\* construction starts with neither; and a constructor that returns has sent
\* an auth request of its own, whose token is the one it holds.
C14_InstanceOwned ==
    [][/\ \A s \in Sessions :
            (Attr(s, "token")' /= Attr(s, "token") \/ Attr(s, "expiry")' /= Attr(s, "expiry"))
                => \E t \in Threads : th[t].sess = s /\ Stores(t)
       /\ \A s \in Sessions :
            (life[s] = "none" /\ life'[s] = "constructing")
                => (Attr(s, "token")' = None /\ Attr(s, "expiry")' = None)
       /\ \A t \in Threads :
            (th[t].op = "__init__" /\ th[t].pc /= "done" /\ th'[t].pc = "done"
                /\ th'[t].result.k = "return")
                => /\ Len(th'[t].wire) = 1
                   /\ th'[t].wire[1].ep = "auth"
                   /\ Attr(th[t].sess, "token")' = Str(th'[t].wire[1].id)
      ]_vars

\* Two sessions are live, one of them has refreshed its token since, and each
\* holds a token of its own.
C14_Witness ==
    /\ life["A"] = "live"
    /\ life["B"] = "live"
    /\ \E s \in Sessions : authCount[s] = 2
    /\ Attr("A", "token") /= None
    /\ Attr("B", "token") /= None
    /\ Attr("A", "token") /= Attr("B", "token")

\* Thread t takes the step of its verb call that sends the resource request
\* and ends the call.
Dispatches(t) == InVerb(t) /\ th[t].pc = "dispatch" /\ th'[t].pc = "done"

\* C15 (no invalidation by a resource outcome): the request of a verb call,
\* whatever the resource endpoint answers, leaves the token and the expiry of
\* every session as they were, and so does the check that found the token
\* unexpired; the token or the expiry of a session changes only in a store of
\* a call on that session that holds an auth response of allow-listed status.
C15_NoInvalidation ==
    [][/\ \A t \in Threads :
            (Dispatches(t) \/ (th[t].pc = "check" /\ th'[t].pc = "dispatch"))
                => (inst' = inst /\ cls' = cls)
       /\ \A s \in Sessions :
            (Attr(s, "token")' /= Attr(s, "token") \/ Attr(s, "expiry")' /= Attr(s, "expiry"))
                => \E t \in Threads :
                        /\ th[t].sess = s
                        /\ Stores(t)
                        /\ th[t].response /= None
                        /\ th[t].response.status \in DEFAULT_SUCCESS_RESPONSE_CODES
      ]_vars

\* A verb call made on an unexpired token, with no fetch, was answered 401 and
\* raised ApiError; the token of the constructor's fetch is still cached and
\* still unexpired.
C15_Witness ==
    /\ InVerb("t1")
    /\ th["t1"].pc = "done"
    /\ Len(th["t1"].wire) = 1
    /\ th["t1"].wire[1].ep = "resource"
    /\ th["t1"].wire[1].reply.k = "resp"
    /\ th["t1"].wire[1].reply.status = 401
    /\ th["t1"].result.k = "raise"
    /\ Attr("A", "token") = th["t1"].wire[1].headers["Authorization"]
    /\ Attr("A", "token") /= None
    /\ Attr("A", "expiry") /= None
    /\ now <= Attr("A", "expiry").utc

\* The next check of session s will fetch: it has no token, or its expiry is
\* before now.
Stale(s) == NeedsToken(Attr(s, "token"), Attr(s, "expiry"), now) = Return(TRUE)

\* Thread t takes the step of its verb call in which its token fetch fails.
FetchFails(t) ==
    /\ InVerb(t)
    /\ th[t].pc = "fetch"
    /\ th'[t].pc /= "fetch"
    /\ FailedFetch(th'[t].wire[Len(th'[t].wire)])

\* C16 (failed refresh): a verb call whose token fetch fails ends there, and
\* none of its steps -- entry, check, fetch -- has written the cache, so the
\* token and the expiry are those of before the call and the session is still
\* stale; a stale session stays stale until a store on it; and the check of a
\* verb call on a stale session goes to a fetch.
C16_FailedRefreshKeepsState ==
    [][/\ \A t \in Threads :
            FetchFails(t) =>
                /\ th'[t].pc = "done"
                /\ th'[t].result.k = "raise"
                /\ inst' = inst
                /\ cls' = cls
                /\ Stale(th[t].sess)'
       /\ \A t \in Threads :
            (th'[t].op \in Verbs /\ th'[t].pc \in {"check", "fetch"} /\ th'[t].pc /= th[t].pc)
                => (inst' = inst /\ cls' = cls)
       /\ \A s \in Sessions :
            (Stale(s) /\ ~(\E t \in Threads : th[t].sess = s /\ Stores(t))) => Stale(s)'
       /\ \A t \in Threads :
            (InVerb(t) /\ th[t].pc = "check" /\ th'[t].pc /= "check" /\ Stale(th[t].sess))
                => th'[t].pc = "fetch"
      ]_vars

\* A verb call that began on an expired token had its fetch rejected and has
\* raised; the expired token and its expiry are still cached.
C16_Witness ==
    /\ InVerb("t1")
    /\ th["t1"].startExpired
    /\ th["t1"].pc = "done"
    /\ Len(th["t1"].wire) = 1
    /\ FailedFetch(th["t1"].wire[1])
    /\ th["t1"].wire[1].reply.k = "resp"
    /\ th["t1"].result.k = "raise"
    /\ Attr("A", "token") /= None
    /\ Attr("A", "expiry") /= None
    /\ Attr("A", "expiry").utc < now

\* C17 (the token that is sent): a verb call about to send its resource
\* request sends in Authorization a token that is not None, that is the token
\* of the session's most recent auth response of allow-listed status, and
\* whose own expiry -- the expiresAt of the response the token came in -- is
\* not earlier than the time of the check the call has just made.
C17_DispatchedToken ==
    \A t \in Threads :
        (InVerb(t) /\ th[t].pc = "dispatch") =>
            LET s == th[t].sess
                auth == GetRequestHeaders(s, th[t].org)["Authorization"]
            IN  /\ auth /= None
                /\ auth = Str(ghost[s].fetched)
                /\ ghost[s].tokenExpiry /= None
                /\ ghost[s].tokenExpiry.utc >= th[t].checkNow

\* A verb call that made no fetch is about to send a token whose own expiry
\* is before the time of the call's check: an earlier refresh stored the
\* expiry of a response that had no token.
C17_StaleTokenSent ==
    /\ InVerb("t1")
    /\ th["t1"].pc = "dispatch"
    /\ th["t1"].wire = <<>>
    /\ GetRequestHeaders("A", th["t1"].org)["Authorization"] /= None
    /\ ghost["A"].tokenExpiry.utc < th["t1"].checkNow
    /\ Attr("A", "expiry").utc >= th["t1"].checkNow
    /\ ghost["A"].fetched /= 1
    /\ Attr("A", "token") = Str(1)

\* The Content-Type values of the peers that announce a JSON body.
JsonContentTypes == {"application/json", "Application/JSON; charset=UTF-8"}

\* C18 (logging never changes the outcome): a verb call whose resource
\* response has an allow-listed status and a Content-Type announcing JSON, but
\* a body that is no JSON document, returns that very response; the logging
\* step raised nothing and logged a warning.
C18_LoggingIsHarmless ==
    \A t \in Threads : \A i \in Exchanges(t, "resource") :
        LET reply == th[t].wire[i].reply
        IN  (/\ InVerb(t)
             /\ th[t].pc = "done"
             /\ reply.k = "resp"
             /\ reply.status \in DEFAULT_SUCCESS_RESPONSE_CODES
             /\ reply.ctype \in JsonContentTypes
             /\ reply.body = NotJson) =>
                /\ th[t].result = Return(reply)
                /\ PrintDebugLogging(reply).k = "return"
                /\ PrintDebugLogging(reply).value.level = "warning"

\* patch() was answered 200 with "Application/JSON; charset=UTF-8" and a body
\* that is no JSON, and returned the response.
C18_Witness ==
    /\ th["t1"].op = "patch"
    /\ th["t1"].pc = "done"
    /\ th["t1"].result.k = "return"
    /\ th["t1"].result.value /= None
    /\ th["t1"].result.value.status = 200
    /\ th["t1"].result.value.ctype = "Application/JSON; charset=UTF-8"
    /\ th["t1"].result.value.body = NotJson

====
